---- MODULE Spec2Model ----
(***************************************************************************)
(* Model of the batch core of QTPAiProject: lambda_handler, the gateway    *)
(* AIModel, generate_companies, parallel_ai_call and the worker            *)
(* sheet_ai_call (one OS process and one Pipe per company and per prompt). *)
(*                                                                         *)
(* Python strings that the code inspects (company names, prompts, the API  *)
(* key, the discovery reply) are sequences of one-character strings, so    *)
(* that truthiness, str.strip and str.split are computed.  Provider names  *)
(* are TLA+ strings; str.lower is tabulated on the identifiers tried.      *)
(***************************************************************************)
EXTENDS Integers, Sequences, FiniteSets, TLC

\* ------------------------------------------------------------------ bounds
MaxCompanies == 2
MaxPrompts == 2
\* Worker runs per batch in which the environment leaves the plain path (the
\* lookup raises or finds nothing, the provider fails or answers at length).
MaxFaults == 1

\* ------------------------------------------------------- string primitives
\* str.strip() with no argument removes leading and trailing whitespace.
IsSpace(c) == c = " "

RECURSIVE LStrip(_)
LStrip(s) == IF s # <<>> /\ IsSpace(Head(s)) THEN LStrip(Tail(s)) ELSE s

RECURSIVE RStrip(_)
RStrip(s) ==
    IF s # <<>> /\ IsSpace(s[Len(s)]) THEN RStrip(SubSeq(s, 1, Len(s) - 1)) ELSE s

Strip(s) == RStrip(LStrip(s))

\* str.split(","): the fields between the separators, empty fields kept;
\* "".split(",") is [""].
RECURSIVE SplitFrom(_, _)
SplitFrom(s, cur) ==
    IF s = <<>> THEN <<cur>>
    ELSE IF Head(s) = "," THEN <<cur>> \o SplitFrom(Tail(s), <<>>)
    ELSE SplitFrom(Tail(s), Append(cur, Head(s)))

Split(s) == SplitFrom(s, <<>>)

\* Python truthiness of a str: non-empty.
Truthy(s) == s # <<>>

\* [x for x in xs if x]
RECURSIVE FilterTruthy(_)
FilterTruthy(xs) ==
    IF xs = <<>> THEN <<>>
    ELSE IF Truthy(Head(xs)) THEN <<Head(xs)>> \o FilterTruthy(Tail(xs))
    ELSE FilterTruthy(Tail(xs))

\* ------------------------------------------------------------- the gateway
valid_providers == {"openai", "anthropic", "grok", "perplexity"}

\* The provider identifiers a request is tried with, and str.lower on them.
ProviderInputs == valid_providers \cup {"OpenAI", "bogus"}
Lower(p) == IF p = "OpenAI" THEN "openai" ELSE p

\* Text standing for the error markers the gateway returns
\* ("Error calling AI service: ...", "Error: ... API key not found ...").
ErrorMarker == <<"E">>

\* What the provider does with one request.
GatewayFailures == {"auth", "transport"}

\* AIModel.__init__: the provider the object holds, or the exception.
AIModelInit(provider) ==
    IF Lower(provider) \notin valid_providers
    THEN [raised |-> TRUE, provider |-> "none"]
    ELSE [raised |-> FALSE, provider |-> Lower(provider)]

\* set_api_key testing len(api_key) == 0 without strip().
SetApiKeyUnstripped(api_key) ==
    IF ~api_key.isStr THEN [raised |-> TRUE, val |-> <<>>]
    ELSE IF Len(api_key.val) = 0 THEN [raised |-> TRUE, val |-> <<>>]
    ELSE [raised |-> FALSE, val |-> Strip(api_key.val)]

\* AIModel.set_api_key: the value written to os.environ, or the exception.
\* A key is [isStr, val]; a non-str key raises TypeError.
SetApiKey(api_key) ==
    IF ~api_key.isStr THEN [raised |-> TRUE, val |-> <<>>]
    ELSE IF Len(Strip(api_key.val)) = 0 THEN [raised |-> TRUE, val |-> <<>>]
    ELSE [raised |-> FALSE, val |-> Strip(api_key.val)]

\* The four backends.  key is os.environ.get(<PROVIDER>_API_KEY) (<<>> when
\* absent), ev is "ok" or a failure of the provider, reply the provider's text.
\* Each returns [raised, val].
openai_api_call(key, ev, reply) ==
    IF ~Truthy(key) THEN [raised |-> FALSE, val |-> ErrorMarker]
    ELSE IF ev = "ok" THEN [raised |-> FALSE, val |-> reply]
    ELSE [raised |-> FALSE, val |-> ErrorMarker]

anthropic_api_call(key, ev, reply) ==
    IF ~Truthy(key) THEN [raised |-> FALSE, val |-> ErrorMarker]
    ELSE IF ev = "ok" THEN [raised |-> FALSE, val |-> reply]
    ELSE [raised |-> FALSE, val |-> ErrorMarker]

\* The client is built and the request is made before the try block, and the
\* handler names requests.exceptions.RequestException only.
grok_api_call(key, ev, reply) ==
    IF ~Truthy(key) THEN [raised |-> FALSE, val |-> ErrorMarker]
    ELSE IF ev = "ok" THEN [raised |-> FALSE, val |-> reply]
    ELSE [raised |-> TRUE, val |-> <<>>]

\* requests.post and raise_for_status raise RequestException subclasses.
perplexity_api_call(key, ev, reply) ==
    IF ~Truthy(key) THEN [raised |-> FALSE, val |-> ErrorMarker]
    ELSE IF ev = "ok" THEN [raised |-> FALSE, val |-> reply]
    ELSE [raised |-> FALSE, val |-> ErrorMarker]

\* AIModel.call: dispatch on the provider name.
Call(provider, env, ev, reply) ==
    IF provider \notin valid_providers THEN [raised |-> FALSE, val |-> ErrorMarker]
    ELSE IF provider = "openai" THEN openai_api_call(env[provider], ev, reply)
    ELSE IF provider = "anthropic" THEN anthropic_api_call(env[provider], ev, reply)
    ELSE IF provider = "grok" THEN grok_api_call(env[provider], ev, reply)
    ELSE perplexity_api_call(env[provider], ev, reply)


\* ------------------------------------------------------------------- state
VARIABLES
    event,               \* the request: companies, prompts, provider, api_key,
                         \* create_list, private_data
    pc,                  \* position of lambda_handler / parallel_ai_call
    model,               \* the provider held by the AIModel object
    environ,             \* os.environ: <PROVIDER>_API_KEY per provider
    companies,           \* lambda_handler's companies / parallel_ai_call's argument
    prompts,             \* the filtered prompts
    company_results,     \* dict company -> row, in insertion order
    parent_connections,  \* dict company -> parent end of a pipe, per wave
    processes,           \* the workers of the current wave, in start order
    pipes,               \* the pipes of the current wave, pipes[i] for processes[i]
    p,                   \* index of the current prompt
    c,                   \* index of the inner loop (spawn, join or recv)
    response,            \* what lambda_handler returns
    hist                 \* history, read by no action but the fault bound:
                         \*   calls    gateway calls made by lambda_handler
                         \*   reply    what the discovery call returned
                         \*   started  workers started
                         \*   writes   writes of the credential
                         \*   discovery  how the discovery call went
                         \*   waves    per wave begun, its prompt and the
                         \*            companies workers were started for
                         \*   faults   worker runs off the plain path
                         \*   raised   the calls of AIModel.call that raised:
                         \*            <<wave, idx>> of the worker, <<0, 0>> for
                         \*            the discovery call
                         \*   unwell   worker runs whose lookup raised or whose
                         \*            provider failure came back as text

vars == <<event, pc, model, environ, companies, prompts, company_results,
          parent_connections, processes, pipes, p, c, response, hist>>

\* ------------------------------------------------------------------ inputs
CompanyValues == {<<>>, <<" ">>, <<"a">>}
PromptValues == {<<>>, <<"q">>}
ScalarPrompts == {<<>>, <<" ">>, <<"q">>}
ApiKeys == {[isStr |-> TRUE, val |-> <<>>], [isStr |-> TRUE, val |-> <<" ">>],
            [isStr |-> TRUE, val |-> <<" ", "k">>], [isStr |-> FALSE, val |-> <<>>]}

ListsOf(S, n) == UNION {[1..k -> S] : k \in 0..n}

\* companies and prompts arrive as a list (val) or as a scalar string (val[1]).
CompanyInputs ==
    {[isList |-> TRUE, val |-> l] : l \in ListsOf(CompanyValues, MaxCompanies)}
    \cup {[isList |-> FALSE, val |-> <<s>>] : s \in CompanyValues}
PromptInputs ==
    {[isList |-> TRUE, val |-> l] : l \in ListsOf(PromptValues, MaxPrompts)}
    \cup {[isList |-> FALSE, val |-> <<s>>] : s \in ScalarPrompts}

\* The provider's text for a (company, prompt) question, and its replies to
\* the discovery prompt.
AnswerText == <<"x">>
\* A provider text longer than the buffer of a pipe.
LongAnswerText == <<"x", "x">>
WorkerReplies == {AnswerText, LongAnswerText}
DiscoveryReplies == {<<"a", ",", "b">>, <<"a", ",", " ", "a">>, <<" ", "b", ",">>}

\* The private-data lookup returns the items, the not-found record, or raises.
LookupOutcomes == {"items", "notfound", "raise"}

\* ------------------------------------------------------------ dictionaries
\* A Python dict is a sequence of [key, val] with distinct keys, in insertion
\* order; assigning to a key that is present keeps its position.
DictHas(d, k) == \E i \in 1..Len(d) : d[i].key = k
DictGet(d, k) == d[CHOOSE i \in 1..Len(d) : d[i].key = k].val
DictSet(d, k, v) ==
    IF DictHas(d, k)
    THEN [i \in 1..Len(d) |-> IF d[i].key = k THEN [key |-> k, val |-> v] ELSE d[i]]
    ELSE Append(d, [key |-> k, val |-> v])
DictValues(d) == [i \in 1..Len(d) |-> d[i].val]

\* {company: [company] for company in companies}
RECURSIVE InitialRows(_)
InitialRows(cs) ==
    IF cs = <<>> THEN <<>>
    ELSE DictSet(InitialRows(SubSeq(cs, 1, Len(cs) - 1)), cs[Len(cs)], <<cs[Len(cs)]>>)

\* -------------------------------------------------------- lambda_handler
\* lines 38-42: a scalar becomes a one-element list, or no list when falsy.
EnsureList(x) ==
    IF x.isList THEN x.val ELSE IF Truthy(x.val[1]) THEN <<x.val[1]>> ELSE <<>>

\* lines 45-46
NormalizeList(x) == FilterTruthy(EnsureList(x))

\* generate_companies appending company instead of company.strip().
GenerateCompaniesUntrimmed(result) == Split(result)

\* generate_companies, lines 156-158, from the gateway's reply.
GenerateCompanies(result) ==
    LET fields == Split(result) IN [i \in 1..Len(fields) |-> Strip(fields[i])]

Pending == [statusCode |-> 0, body |-> [error |-> "pending"]]
Failure500 == [statusCode |-> 500, body |-> [error |-> "exception"]]

\* The requests tried: every configuration with lists of at most one entry,
\* and every list under the two configurations whose gateways differ (openai
\* returns a provider failure as text, grok raises it); with the longer lists
\* the private-data lookup is tried under openai without list generation,
\* and with list generation the caller's list has at most one entry.
BatchProviders == {"openai", "grok"}
GoodKey == [isStr |-> TRUE, val |-> <<" ", "k">>]
Requests ==
    {e \in [companies : CompanyInputs, prompts : PromptInputs,
            provider : ProviderInputs, api_key : ApiKeys,
            create_list : BOOLEAN, private_data : BOOLEAN] :
        \/ Len(e.companies.val) <= 1 /\ Len(e.prompts.val) <= 1
        \/ /\ e.provider \in BatchProviders
           /\ e.api_key = GoodKey
           /\ e.private_data => (e.provider = "openai" /\ ~e.create_list)
           /\ e.create_list => Len(e.companies.val) <= 1}

Init ==
    /\ event \in Requests
    /\ pc = "start"
    /\ model = "none"
    /\ environ = [v \in valid_providers |-> <<>>]
    /\ companies = <<>>
    /\ prompts = <<>>
    /\ company_results = <<>>
    /\ parent_connections = <<>>
    /\ processes = <<>>
    /\ pipes = <<>>
    /\ p = 0
    /\ c = 0
    /\ response = Pending
    /\ hist = [calls |-> 0, started |-> 0, writes |-> 0, reply |-> <<>>, faults |-> 0,
               discovery |-> "none", waves |-> <<>>,
               raised |-> {}, unwell |-> 0]

\* An except clause that does not match: the exception leaves lambda_handler
\* and no response is returned.
RaiseEscapes ==
    /\ pc' = "done"
    /\ response' = Pending

\* except Exception as e: return the 500 response (lines 59-68).
Raise ==
    /\ pc' = "done"
    /\ response' = Failure500

\* line 32: model = ai_model.AIModel(provider)
Construct ==
    /\ pc = "start"
    /\ LET r == AIModelInit(event.provider) IN
        IF r.raised
        THEN /\ Raise
             /\ UNCHANGED model
        ELSE /\ model' = r.provider
             /\ pc' = "set_api_key"
             /\ UNCHANGED response
    /\ UNCHANGED <<event, environ, companies, prompts, company_results,
                   parent_connections, processes, pipes, p, c, hist>>

\* A set_api_key that validates the key and does not store it.
SetKeyWithoutWrite ==
    /\ pc = "set_api_key"
    /\ LET r == SetApiKey(event.api_key) IN
        IF r.raised
        THEN Raise
        ELSE /\ pc' = "normalize"
             /\ UNCHANGED response
    /\ UNCHANGED <<event, model, environ, companies, prompts, company_results,
                   parent_connections, processes, pipes, p, c, hist>>

\* line 35: model.set_api_key(api_key)
SetKey ==
    /\ pc = "set_api_key"
    /\ LET r == SetApiKey(event.api_key) IN
        IF r.raised
        THEN /\ Raise
             /\ UNCHANGED <<environ, hist>>
        ELSE /\ environ' = [environ EXCEPT ![model] = r.val]
             /\ hist' = [hist EXCEPT !.writes = @ + 1]
             /\ pc' = "normalize"
             /\ UNCHANGED response
    /\ UNCHANGED <<event, model, companies, prompts, company_results,
                   parent_connections, processes, pipes, p, c>>

\* lines 37-46
Normalize ==
    /\ pc = "normalize"
    /\ companies' = NormalizeList(event.companies)
    /\ prompts' = NormalizeList(event.prompts)
    /\ pc' = IF event.create_list THEN "generate" ELSE "dispatch"
    /\ UNCHANGED <<event, model, environ, company_results, parent_connections,
                   processes, pipes, p, c, response, hist>>

\* lines 48-49: companies = generate_companies(companies, number, model)
Generate ==
    /\ pc = "generate"
    /\ \E ev \in {"ok"} \cup GatewayFailures, reply \in DiscoveryReplies :
        LET r == Call(model, environ, ev, reply) IN
        /\ hist' = [hist EXCEPT !.calls = @ + 1,
                                !.discovery = IF ev = "ok" THEN "ok" ELSE "failed",
                                !.reply = IF r.raised THEN <<>> ELSE r.val,
                                !.raised = IF r.raised THEN @ \cup {<<0, 0>>} ELSE @]
        /\ IF r.raised
           THEN /\ Raise
                /\ UNCHANGED companies
           ELSE /\ companies' = GenerateCompanies(r.val)
                /\ pc' = "dispatch"
                /\ UNCHANGED response
    /\ UNCHANGED <<event, model, environ, prompts, company_results,
                   parent_connections, processes, pipes, p, c>>

\* --------------------------------------------------------- sheet_ai_call
\* An outcome as it travels on a pipe: the success text (error FALSE) or the
\* failure record (error TRUE).  by names the worker that sent it and cause
\* what raised in it; neither is read by the program.
Success(w, text) == [error |-> FALSE, text |-> text, by |-> w, cause |-> "none"]
FailureOutcome(w, cause) == [error |-> TRUE, text |-> <<>>, by |-> w, cause |-> cause]

\* conn.send of a message larger than the pipe's buffer returns only when
\* the other end reads.
ExceedsPipeBuffer(msg) == ~msg.error /\ msg.text = LongAnswerText

\* A sheet_ai_call that takes the not-found result of the lookup for an
\* error: it sends the failure record and does not call the gateway.
sheet_ai_call_NotFoundRaises(w, private_data, mdl, env, lk, ev, reply, sendRaises) ==
    LET lookupRaised == private_data /\ lk \in {"raise", "notfound"}
        ref == IF private_data /\ lk # "raise" THEN lk ELSE "none"
        r == Call(mdl, env, ev, reply)
        cause == IF lookupRaised THEN "lookup"
                 ELSE IF r.raised THEN "call"
                 ELSE IF sendRaises THEN "send" ELSE "none"
        handler == IF sendRaises
                   THEN [sent |-> <<>>, crashed |-> TRUE]
                   ELSE [sent |-> <<FailureOutcome(w, cause)>>, crashed |-> FALSE]
        body == IF cause = "none"
                THEN [sent |-> <<Success(w, r.val)>>, crashed |-> FALSE]
                ELSE handler
        blocked == body.sent # <<>> /\ ExceedsPipeBuffer(body.sent[1])
    IN  [sent |-> body.sent, crashed |-> body.crashed,
         blocked |-> blocked,
         lookups |-> IF private_data THEN <<w.company>> ELSE <<>>,
         calls |-> IF lookupRaised THEN 0 ELSE 1,
         ref |-> ref,
         cause |-> cause,
         closed |-> ~blocked]

\* One run of sheet_ai_call for the worker w = [wave, idx, company, prompt]:
\* lk is what read_dynamo does (when called), ev what the provider does with
\* its text reply, and sendRaises whether conn.send raises (the parent end is
\* gone).  The result holds the messages written to the pipe, whether the
\* worker is held in conn.send, whether an exception left the function, and
\* how often and for whom the lookup and the gateway were called.
sheet_ai_call(w, private_data, mdl, env, lk, ev, reply, sendRaises) ==
    LET lookupRaised == private_data /\ lk = "raise"
        ref == IF private_data /\ ~lookupRaised THEN lk ELSE "none"
        r == Call(mdl, env, ev, reply)
        called == ~lookupRaised
        cause == IF lookupRaised THEN "lookup"
                 ELSE IF r.raised THEN "call"
                 ELSE IF sendRaises THEN "send" ELSE "none"
        \* except Exception: conn.send([{"error": True, ...}])
        handler == IF sendRaises
                   THEN [sent |-> <<>>, crashed |-> TRUE]
                   ELSE [sent |-> <<FailureOutcome(w, cause)>>, crashed |-> FALSE]
        body == IF cause = "none"
                THEN [sent |-> <<Success(w, r.val)>>, crashed |-> FALSE]
                ELSE handler
        blocked == body.sent # <<>> /\ ExceedsPipeBuffer(body.sent[1])
    IN  [sent |-> body.sent, crashed |-> body.crashed,
         blocked |-> blocked,
         lookups |-> IF private_data THEN <<w.company>> ELSE <<>>,
         calls |-> IF called THEN 1 ELSE 0,
         ref |-> ref,
         cause |-> cause,
         closed |-> ~blocked]

\* A worker process between process.start() and its exit.
NewWorker(w) ==
    [pc |-> "started", w |-> w, sent |-> 0, crashed |-> FALSE, lookups |-> <<>>,
     calls |-> 0, ref |-> "none", cause |-> "none", closed |-> FALSE]

\* The worker processes[i] runs sheet_ai_call and exits, or stays in
\* conn.send ("sending") with its message in the pipe until the parent
\* receives it.  When the parent end of its pipe has been dropped, send
\* succeeds where the child holds a copy of that end (start method fork) and
\* raises BrokenPipeError where it does not (spawn, forkserver).  The long
\* reply is drawn where the provider answers, in batches without private data.
Work(i) ==
    /\ i \in 1..Len(processes)
    /\ processes[i].pc = "started"
    /\ \E lk \in (IF event.private_data THEN LookupOutcomes ELSE {"none"}),
          ev \in {"ok"} \cup GatewayFailures,
          sendRaises \in (IF pipes[i].parentOpen THEN {FALSE} ELSE BOOLEAN) :
       \E reply \in (IF ev = "ok" /\ lk = "none" THEN WorkerReplies ELSE {AnswerText}) :
        LET r == sheet_ai_call(processes[i].w, event.private_data, model, environ,
                               lk, ev, reply, sendRaises)
            fault == lk \in {"notfound", "raise"} \/ ev # "ok" \/ reply # AnswerText
        IN
        /\ fault => hist.faults < MaxFaults
        /\ hist' = [hist EXCEPT
               !.faults = IF fault THEN @ + 1 ELSE @,
               !.raised = IF r.cause = "call"
                          THEN @ \cup {<<processes[i].w.wave, processes[i].w.idx>>}
                          ELSE @,
               !.unwell = IF r.cause = "lookup" \/ (r.cause # "call" /\ ev # "ok")
                          THEN @ + 1 ELSE @]
        /\ processes' = [processes EXCEPT ![i] =
               [pc |-> IF r.blocked THEN "sending" ELSE "exited", w |-> @.w,
                sent |-> IF r.blocked THEN 0 ELSE Len(r.sent),
                crashed |-> r.crashed, lookups |-> r.lookups, calls |-> r.calls,
                ref |-> r.ref,
                cause |-> r.cause,
                closed |-> r.closed]]
        /\ pipes' = [pipes EXCEPT ![i].buf = @ \o r.sent]
    /\ UNCHANGED <<event, pc, model, environ, companies, prompts, company_results,
                   parent_connections, p, c, response>>

\* -------------------------------------------------------- parallel_ai_call
\* line 104
Dispatch ==
    /\ pc = "dispatch"
    /\ company_results' = InitialRows(companies)
    /\ p' = 1
    /\ pc' = "wave"
    /\ UNCHANGED <<event, model, environ, companies, prompts, parent_connections,
                   processes, pipes, c, response, hist>>

\* lines 106-108: the next prompt; with no company the three loops are empty.
BeginWave ==
    /\ pc = "wave"
    /\ p <= Len(prompts)
    /\ processes' = <<>>
    /\ parent_connections' = <<>>
    /\ pipes' = <<>>
    /\ c' = 1
    /\ IF companies = <<>>
       THEN /\ p' = p + 1
            /\ pc' = "wave"
       ELSE /\ pc' = "spawn"
            /\ UNCHANGED p
    /\ hist' = [hist EXCEPT !.waves = Append(@, [prompt |-> prompts[p],
                                                 companies |-> <<>>])]
    /\ UNCHANGED <<event, model, environ, companies, prompts, company_results,
                   response>>

\* parent_connections[company] = parent_conn (line 111): a connection that is
\* replaced in the dict has no reference left and is closed.
ConnectionsAfter(conns, company, i) == DictSet(conns, company, i)

PipesAfter(pps, conns, company) ==
    LET dropped == IF DictHas(conns, company) THEN {DictGet(conns, company)} ELSE {}
    IN  [j \in 1..Len(pps) |->
            IF j \in dropped THEN [pps[j] EXCEPT !.parentOpen = FALSE] ELSE pps[j]]
        \o <<[buf |-> <<>>, parentOpen |-> TRUE]>>

\* lines 109-114 for companies[c]
Spawn ==
    /\ pc = "spawn"
    /\ c <= Len(companies)
    /\ LET company == companies[c] IN
        /\ pipes' = PipesAfter(pipes, parent_connections, company)
        /\ parent_connections' = ConnectionsAfter(parent_connections, company, c)
        /\ processes' = Append(processes,
               NewWorker([wave |-> p, idx |-> c, company |-> company,
                          prompt |-> prompts[p]]))
    /\ hist' = [hist EXCEPT !.started = @ + 1,
                            !.waves[Len(hist.waves)].companies = Append(@, companies[c])]
    /\ IF c = Len(companies)
       THEN /\ pc' = "join"
            /\ c' = 1
       ELSE /\ c' = c + 1
            /\ UNCHANGED pc
    /\ UNCHANGED <<event, model, environ, companies, prompts, company_results,
                   p, response>>

\* A join loop that does not wait for the process to exit.
JoinWithoutWaiting ==
    /\ pc = "join"
    /\ IF c = Len(processes)
       THEN /\ pc' = "recv"
            /\ c' = 1
       ELSE /\ c' = c + 1
            /\ UNCHANGED pc
    /\ UNCHANGED <<event, model, environ, companies, prompts, company_results,
                   parent_connections, processes, pipes, p, response, hist>>

\* lines 116-117: process.join() returns when the process has exited.
Join ==
    /\ pc = "join"
    /\ processes[c].pc = "exited"
    /\ IF c = Len(processes)
       THEN /\ pc' = "recv"
            /\ c' = 1
       ELSE /\ c' = c + 1
            /\ UNCHANGED pc
    /\ UNCHANGED <<event, model, environ, companies, prompts, company_results,
                   parent_connections, processes, pipes, p, response, hist>>

\* company_results[company].append(result)
AppendResult(rows, company, result) ==
    DictSet(rows, company, Append(DictGet(rows, company), result))

\* The workers after the parent has received from pipe i: a worker held in
\* conn.send on that pipe finishes its send, closes and exits.
ReleasedBy(procs, i) ==
    [j \in 1..Len(procs) |->
        IF j = i /\ procs[j].pc = "sending"
        THEN [procs[j] EXCEPT !.pc = "exited", !.sent = 1, !.closed = TRUE]
        ELSE procs[j]]

\* lines 119-121 for the c-th item of parent_connections.  recv on a pipe
\* that holds nothing raises EOFError once every copy of the child end is
\* closed; the parent still holds the child end of the pipe created last.
Recv ==
    /\ pc = "recv"
    /\ LET company == parent_connections[c].key
           i == parent_connections[c].val
       IN  IF pipes[i].buf = <<>>
           THEN /\ i # Len(pipes)
                /\ Raise
                /\ UNCHANGED <<company_results, pipes, processes, p, c>>
           ELSE /\ company_results' =
                        AppendResult(company_results, company, Head(pipes[i].buf))
                /\ pipes' = [pipes EXCEPT ![i].buf = Tail(@)]
                /\ processes' = ReleasedBy(processes, i)
                /\ IF c = Len(parent_connections)
                   THEN /\ p' = p + 1
                        /\ pc' = "wave"
                        /\ UNCHANGED c
                   ELSE /\ c' = c + 1
                        /\ UNCHANGED <<p, pc>>
                /\ UNCHANGED response
    /\ UNCHANGED <<event, model, environ, companies, prompts, parent_connections,
                   hist>>

\* lines 123-130, and lines 52-58 of lambda_handler
Result(rows, cs, ps) ==
    [data |-> DictValues(rows), metadata |-> [companies |-> cs, prompts |-> ps]]

Return ==
    /\ pc = "wave"
    /\ p > Len(prompts)
    /\ response' = [statusCode |-> 200,
                    body |-> Result(company_results, companies, prompts)]
    /\ pc' = "done"
    /\ UNCHANGED <<event, model, environ, companies, prompts, company_results,
                   parent_connections, processes, pipes, p, c, hist>>

Next ==
    \/ Construct
    \/ SetKey
    \/ Normalize
    \/ Generate
    \/ Dispatch
    \/ BeginWave
    \/ Spawn
    \/ \E i \in 1..Len(processes) : Work(i)
    \/ Join
    \/ Recv
    \/ Return

Spec == Init /\ [][Next]_vars

\* ------------------------------------------------ vocabulary of the claims
\* The batch has returned its grid.
Returned == pc = "done" /\ response.statusCode = 200
Grid == response.body.data

\* The worker started for row i and column j + 1.
Pair(i, j) == [wave |-> j, idx |-> i, company |-> companies[i], prompt |-> prompts[j]]

\* A string that is neither empty nor whitespace-only.
NonBlank(str) == \E i \in 1..Len(str) : str[i] # " "
KeepNonBlank(xs) == SelectSeq(xs, NonBlank)
AsList(x) == IF x.isList THEN x.val ELSE <<x.val[1]>>

\* The reply split on its commas, each entry trimmed.
CommaAt(str) == {i \in 1..Len(str) : str[i] = ","}
NthComma(str, k) ==
    CHOOSE i \in CommaAt(str) : Cardinality({j \in CommaAt(str) : j < i}) = k - 1
Trimmed(str) ==
    IF ~NonBlank(str) THEN <<>>
    ELSE LET ink == {i \in 1..Len(str) : str[i] # " "}
             lo == CHOOSE i \in ink : \A j \in ink : i <= j
             hi == CHOOSE i \in ink : \A j \in ink : j <= i
         IN  SubSeq(str, lo, hi)
TrimmedFields(str) ==
    LET n == Cardinality(CommaAt(str)) + 1 IN
    [k \in 1..n |->
        Trimmed(SubSeq(str,
                       (IF k = 1 THEN 0 ELSE NthComma(str, k - 1)) + 1,
                       (IF k = n THEN Len(str) + 1 ELSE NthComma(str, k)) - 1))]

\* ------------------------------------------------------------------ claims
\* C1: for a non-empty company list of size n and a prompt list of size m the
\* returned grid has exactly n rows and every row has 1 + m elements.
C1_GridShape ==
    (Returned /\ companies # <<>>) =>
        /\ Len(Grid) = Len(companies)
        /\ \A r \in 1..Len(Grid) : Len(Grid[r]) = 1 + Len(prompts)

\* C2: the first element of row i of the returned grid is the i-th company
\* of the dispatched list, also when a name occurs more than once.
C2_RowIdentity ==
    Returned =>
        \A i \in 1..Len(companies) : i <= Len(Grid) /\ Grid[i][1] = companies[i]

\* C3: the value in row i, column j + 1 of the returned grid is the outcome
\* sent by the worker started for (companies[i], prompts[j]).
C3_ColumnPairing ==
    Returned =>
        \A i \in 1..Len(companies), j \in 1..Len(prompts) :
            /\ i <= Len(Grid)
            /\ j + 1 <= Len(Grid[i])
            /\ Grid[i][j + 1].by = Pair(i, j)

\* C4: when the provider call of exactly one pair raises in its worker and
\* every other worker succeeds, the returned grid has full shape, the cell of
\* that pair alone holds a failure and every other cell holds the success
\* text of its own pair.
OneCallRaised ==
    /\ Cardinality(hist.raised) = 1
    /\ <<0, 0>> \notin hist.raised
    /\ hist.unwell = 0

C4_FailureContainment ==
    (Returned /\ OneCallRaised) =>
        /\ Len(Grid) = Len(companies)
        /\ \A i \in 1..Len(companies), j \in 1..Len(prompts) :
            /\ Len(Grid[i]) = 1 + Len(prompts)
            /\ IF <<j, i>> \in hist.raised
               THEN Grid[i][j + 1].error
               ELSE /\ ~Grid[i][j + 1].error
                    /\ Grid[i][j + 1].text = AnswerText
                    /\ Grid[i][j + 1].by = Pair(i, j)

\* C5: a worker that has run sheet_ai_call has delivered exactly one outcome
\* on its pipe and closed it, and no exception has left it.
C5_ExactlyOneOutcome ==
    \A i \in 1..Len(processes) :
        processes[i].pc = "exited" =>
            /\ processes[i].sent = 1
            /\ processes[i].closed
            /\ ~processes[i].crashed

\* C6: after normalisation the company list and the prompt list hold exactly
\* the caller's entries that are neither empty nor whitespace-only, in order.
C6_Filtering ==
    (pc = "generate" \/ (pc = "dispatch" /\ ~event.create_list)) =>
        /\ companies = KeepNonBlank(AsList(event.companies))
        /\ prompts = KeepNonBlank(AsList(event.prompts))

\* C7: with list generation, the workers of a wave are started for exactly
\* the entries of the discovery reply split on commas and trimmed, in order,
\* and for no other company.
C7_ListGeneration ==
    (event.create_list /\ pc \in {"spawn", "join", "recv"}) =>
        LET list == TrimmedFields(hist.reply) IN
        /\ hist.calls = 1
        /\ Len(processes) <= Len(list)
        /\ pc \in {"join", "recv"} => Len(processes) = Len(list)
        /\ \A i \in 1..Len(processes) : processes[i].w.company = list[i]

\* A wave was started from a generated list that lacks a company of the caller.
C7_Witness ==
    /\ event.create_list
    /\ pc = "recv"
    /\ Len(processes) = 2
    /\ hist.reply = <<"a", ",", " ", "a">>
    /\ event.companies.val = <<<<" ">>>>

\* C8: no call of AIModel.call raises.
C8_GatewayNeverRaises == hist.raised = {}

\* C9: with an unsupported backend identifier or an empty or whitespace-only
\* credential, no worker is started, no gateway call is made and the batch
\* ends with the failure payload.
ConfigurationError ==
    \/ Lower(event.provider) \notin valid_providers
    \/ event.api_key.isStr /\ ~NonBlank(event.api_key.val)

C9_ConfigurationFatal ==
    ConfigurationError =>
        /\ hist.started = 0
        /\ hist.calls = 0
        /\ processes = <<>>
        /\ pc \in {"start", "set_api_key", "done"}
        /\ pc = "done" => response.statusCode = 500 /\ DOMAIN response.body = {"error"}

\* The batch has ended on a whitespace-only credential for a supported backend.
C9_Witness ==
    /\ pc = "done"
    /\ Lower(event.provider) \in valid_providers
    /\ event.api_key = [isStr |-> TRUE, val |-> <<" ">>]
    /\ response.statusCode = 500

\* C10: lambda_handler ends with the success response (200, data and metadata
\* with companies and prompts) or with the failure response (500, error only),
\* and an exception raised in its body leads to the failure response.
C10_TwoOutcomes ==
    /\ pc = "done" =>
        \/ /\ response.statusCode = 200
           /\ DOMAIN response.body = {"data", "metadata"}
           /\ DOMAIN response.body.metadata = {"companies", "prompts"}
        \/ /\ response.statusCode = 500
           /\ DOMAIN response.body = {"error"}
    /\ (<<0, 0>> \in hist.raised \/ ConfigurationError \/ ~event.api_key.isStr) =>
        (pc = "done" => response.statusCode = 500)
    /\ <<0, 0>> \in hist.raised => pc = "done"

\* The discovery call raised and the handler answered with the failure response.
C10_Witness ==
    /\ pc = "done"
    /\ <<0, 0>> \in hist.raised
    /\ response.statusCode = 500

\* The metadata of the returned batch, and what it repeats: the prompts of
\* the waves in the order they were begun, and for each wave the companies
\* workers were started for in the order they were started.
Metadata == response.body.metadata
WavePrompts == [k \in 1..Len(hist.waves) |-> hist.waves[k].prompt]
MetadataEchoesDispatch ==
    /\ Metadata.prompts = WavePrompts
    /\ \A k \in 1..Len(hist.waves) : hist.waves[k].companies = Metadata.companies

\* C11: the companies and prompts lists of the returned metadata are the
\* lists the waves were dispatched over, in the same order, so that
\* metadata.companies[i] is the name in row i of the grid and
\* metadata.prompts[j] is the prompt answered in column j + 1 of every row.
C11_BatchMetadata ==
    Returned =>
        /\ MetadataEchoesDispatch
        /\ \A i \in 1..Len(Metadata.companies) :
                /\ i <= Len(Grid)
                /\ Grid[i][1] = Metadata.companies[i]
                /\ \A j \in 1..Len(Metadata.prompts) :
                        /\ j + 1 <= Len(Grid[i])
                        /\ Grid[i][j + 1].by.prompt = Metadata.prompts[j]

\* The workers that have been started and have not exited, and whether the
\* outcome of the worker w stands in a row of the grid under construction.
Alive == {i \in 1..Len(processes) : processes[i].pc # "exited"}
Appended(w) ==
    LET rows == DictValues(company_results) IN
    \E r \in 1..Len(rows) :
        /\ w.wave + 1 <= Len(rows[r])
        /\ rows[r][w.wave + 1].by = w
WaveBegins == Len(hist'.waves) > Len(hist.waves)

\* C12: the waves take the prompts in list order; the parent begins the next
\* wave only when every worker of the wave before has exited and its outcome
\* has been appended to the grid; so at most as many workers as there are
\* companies are alive, and all of them belong to the wave begun last.
C12_CrossWaveOrdering ==
    /\ [](/\ WavePrompts = SubSeq(prompts, 1, Len(hist.waves))
          /\ Cardinality(Alive) <= Len(companies)
          /\ \A i \in Alive : processes[i].w.wave = Len(hist.waves))
    /\ [][WaveBegins =>
            \A i \in 1..Len(processes) :
                /\ processes[i].pc = "exited"
                /\ Appended(processes[i].w)]_vars

\* C13: every call and lookup of a worker returns or raises (Work is enabled
\* for every started worker), and then the batch goes on until lambda_handler
\* has returned: no state is reached in which the parent waits on a worker
\* and no step is left to take, the worker being held in conn.send on a pipe
\* the parent reads only after the join.
C13_BatchTermination == pc # "done" => ENABLED Next

\* C14: while a worker of the current wave has not been started or has not
\* exited, the parent is in the spawn or the join loop, no row has been
\* given an element for this wave, and every message a worker has sent is
\* still in its pipe.
WaveOpen == pc = "spawn" \/ Alive # {}
C14_WaveBarrier ==
    WaveOpen =>
        /\ pc \in {"spawn", "join"}
        /\ LET rows == DictValues(company_results) IN
            \A r \in 1..Len(rows) : Len(rows[r]) = Len(hist.waves)
        /\ \A i \in 1..Len(processes) :
                processes[i].pc = "exited" => Len(pipes[i].buf) = processes[i].sent

\* The parent waits in join for the first worker while the second has
\* exited and its outcome lies unread in its pipe.
C14_Witness ==
    /\ pc = "join"
    /\ Len(processes) = 2
    /\ processes[1].pc = "started"
    /\ processes[2].pc = "exited"
    /\ pipes[2].buf # <<>>

\* The positions of the outcome cells of the returned grid, and a company
\* list in which a name occurs more than once.
OutcomeCells == UNION {{<<r, j>> : j \in 2..Len(Grid[r])} : r \in 1..Len(Grid)}
HasDuplicate == \E i, j \in 1..Len(companies) : i # j /\ companies[i] = companies[j]

\* C15: when a company name occurs more than once in the company list, every
\* wave starts one worker for each occurrence, and in the returned grid each
\* of these workers has its outcome in a cell of its own: the outcome cells
\* are as many as the workers started and no two hold the outcome of the
\* same worker.
C15_DuplicateCompanies ==
    (Returned /\ HasDuplicate) =>
        /\ \A k \in 1..Len(hist.waves) : hist.waves[k].companies = companies
        /\ Cardinality(OutcomeCells) = hist.started
        /\ \A x, y \in OutcomeCells :
                Grid[x[1]][x[2]].by = Grid[y[1]][y[2]].by => x = y

\* C16: when the discovery call of list generation fails (authentication or
\* transport failure), lambda_handler ends at once with the failure response:
\* no wave is begun, no worker is started and no grid is returned.
C16_GenerationFailureAborts ==
    hist.discovery = "failed" =>
        /\ pc = "done"
        /\ response = Failure500
        /\ hist.waves = <<>>
        /\ hist.started = 0

\* C17: every worker started by parallel_ai_call has a company and a prompt
\* that are neither empty nor whitespace-only, also when the company list
\* comes from list generation.
C17_NoBlankTaskUnit ==
    \A i \in 1..Len(processes) :
        /\ NonBlank(processes[i].w.company)
        /\ NonBlank(processes[i].w.prompt)

\* The environment once set_api_key has stored the key of the request for
\* the selected backend, and a step taken by a worker alone.
CredentialWritten ==
    [v \in valid_providers |-> IF v = model THEN Trimmed(event.api_key.val) ELSE <<>>]
WorkerStep == processes' # processes /\ pc' = pc /\ c' = c

\* C18: the credential of the selected backend is written once per batch, by
\* set_api_key, before the discovery call and before any worker starts; from
\* then on the environment holds that value for that backend and nothing for
\* the others, whatever the workers and the later steps do; and a step of a
\* worker changes its own process and its own pipe and nothing else the
\* program holds.
C18_CredentialWriteOnce ==
    /\ [](/\ hist.writes <= 1
          /\ (hist.calls > 0 \/ hist.started > 0) => hist.writes = 1
          /\ hist.writes = 1 => environ = CredentialWritten)
    /\ [][environ' # environ =>
            /\ pc = "set_api_key"
            /\ hist.writes = 0 /\ hist.calls = 0 /\ hist.started = 0]_vars
    /\ [][WorkerStep =>
            /\ UNCHANGED <<event, model, environ, companies, prompts,
                           company_results, parent_connections, p, response>>
            /\ \E i \in 1..Len(processes) :
                    \A j \in 1..Len(processes) \ {i} :
                        processes'[j] = processes[j] /\ pipes'[j] = pipes[j]]_vars

\* A batch with list generation has returned: the discovery call and the
\* workers ran with the key that set_api_key stored, trimmed, and the
\* environment still holds it.
C18_Witness ==
    /\ Returned
    /\ hist.calls = 1
    /\ hist.started >= 1
    /\ hist.writes = 1
    /\ event.api_key.val = <<" ", "k">>
    /\ environ[model] = <<"k">>

\* The workers that have run sheet_ai_call up to its conn.send.
HasRun == {i \in 1..Len(processes) : processes[i].pc # "started"}

\* C19: a worker calls the lookup once, for its own company, when the
\* private-data flag is set and not at all when it is not; when the lookup
\* finds nothing the worker still calls the gateway once, and unless that
\* call or the send itself raises, the message it writes to its pipe is a
\* success, not a failure.
C19_PrivateDataLookup ==
    \A i \in HasRun :
        LET q == processes[i] IN
        /\ q.lookups = IF event.private_data THEN <<q.w.company>> ELSE <<>>
        /\ q.ref = "notfound" =>
              /\ q.calls = 1
              /\ q.cause # "lookup"
              /\ (<<q.w.wave, q.w.idx>> \notin hist.raised /\ q.cause # "send") =>
                    /\ q.cause = "none"
                    /\ pipes[i].buf # <<>> => ~pipes[i].buf[1].error

\* A worker whose lookup found nothing has exited, having called the gateway
\* and left a success in its pipe.
C19_Witness ==
    \E i \in 1..Len(processes) :
        /\ processes[i].pc = "exited"
        /\ processes[i].ref = "notfound"
        /\ processes[i].lookups = <<processes[i].w.company>>
        /\ processes[i].calls = 1
        /\ pipes[i].buf # <<>>
        /\ ~pipes[i].buf[1].error

\* parallel_ai_call has been entered.
Dispatched == pc \in {"wave", "spawn", "join", "recv"} \/ Returned

\* C20: with an empty prompt list or an empty company list parallel_ai_call
\* starts no worker and returns normally, with the dispatched lists as its
\* metadata; with no prompt the grid has one row per company of the list,
\* holding the name alone, and with no company the grid is empty.
C20_DegenerateBatches ==
    (Dispatched /\ (prompts = <<>> \/ companies = <<>>)) =>
        /\ hist.started = 0
        /\ pc # "done" => ENABLED Next
        /\ pc = "done" =>
              /\ Returned
              /\ Metadata.companies = companies
              /\ Metadata.prompts = prompts
              /\ Len(Grid) = Len(companies)
              /\ \A i \in 1..Len(companies) : Grid[i] = <<companies[i]>>

====
